---- MODULE Spec2Model ----
(***************************************************************************)
(* Model of the VCC package & repository index engine of                  *)
(* booth_assets_manager (vcc_integration.py) together with the parts of   *)
(* database.py, settings.py and vcc_cli.py it relies on.                  *)
(*                                                                         *)
(* Text is modelled as sequences of one-character strings so that         *)
(* sanitize_id can be computed character by character.  A dictionary is a  *)
(* record with a field "keys", the set of the keys it has; the Python      *)
(* value None in a text field is the one-element sequence None.            *)
(***************************************************************************)
EXTENDS Integers, Sequences, FiniteSets, TLC

None == <<"None">>

(***************************************************************************)
(* Characters and the text helpers used by sanitize_id.                    *)
(***************************************************************************)
UpperChars ==
  <<"A","B","C","D","E","F","G","H","I","J","K","L","M",
    "N","O","P","Q","R","S","T","U","V","W","X","Y","Z">>

LowerChars ==
  <<"a","b","c","d","e","f","g","h","i","j","k","l","m",
    "n","o","p","q","r","s","t","u","v","w","x","y","z">>

DigitChars == <<"0","1","2","3","4","5","6","7","8","9">>

Range(s) == {s[i] : i \in DOMAIN s}

UpperSet == Range(UpperChars)

LowerSet == Range(LowerChars)

DigitSet == Range(DigitChars)

IsUpper(c) == c \in UpperSet

IsLower(c) == c \in LowerSet

IsDigit(c) == c \in DigitSet

\* the character class [a-zA-Z0-9] of the regular expression in sanitize_id
IsAlnum(c) == IsUpper(c) \/ IsLower(c) \/ IsDigit(c)

\* str.isalpha() on one character that already passed the [a-zA-Z0-9] filter
IsAlpha(c) == IsUpper(c) \/ IsLower(c)

\* str.lower() on one character
LowerChar(c) ==
  IF IsUpper(c) THEN LowerChars[CHOOSE i \in DOMAIN UpperChars : UpperChars[i] = c]
  ELSE c

\* str.lower()
Lower(s) == [i \in DOMAIN s |-> LowerChar(s[i])]

\* text.replace(' ', '.')
ReplaceSpaces(s) == [i \in DOMAIN s |-> IF s[i] = " " THEN "." ELSE s[i]]

\* re.sub(r'[^a-zA-Z0-9]', '', s)
StripNonAlnum(s) == SelectSeq(s, IsAlnum)

\* Python truthiness of a text value: None, a missing value and "" are falsy
Truthy(text) == text # None /\ text # <<>>

sanitize_id(text) ==
  IF ~Truthy(text) THEN <<"u","n","k","n","o","w","n">>
  ELSE LET sanitized == StripNonAlnum(ReplaceSpaces(text))
           lead == IF sanitized = <<>> \/ ~IsAlpha(sanitized[1])
                   THEN <<"a">> \o sanitized
                   ELSE sanitized
       IN Lower(lead)

\* "key in item"
Has(item, key) == key \in item.keys

\* item.get(key, default)
Get(item, key, default) == IF Has(item, key) THEN item[key] ELSE default

\* the identifier built from the creator and the title alone
generate_package_id_untagged(item) ==
  LET creator == IF Has(item, "creator") THEN sanitize_id(item.creator)
                 ELSE <<"b","o","o","t","h">>
      title == sanitize_id(Get(item, "title", <<"i","t","e","m">>))
  IN <<"c","o","m",".">> \o creator \o <<".">> \o title

\* generate_package_id(item); only called for an item that has "item_id"
generate_package_id(item) ==
  LET creator == IF Has(item, "creator") THEN sanitize_id(item.creator)
                 ELSE <<"b","o","o","t","h">>
      title == sanitize_id(Get(item, "title", <<"i","t","e","m">>))
  IN <<"c","o","m",".">> \o creator \o <<".">> \o title \o <<".">> \o item.item_id

(***************************************************************************)
(* The items.  A database row (database.py, class Item) has the columns   *)
(* item_id, title, description, folder_path and the package columns; only *)
(* the package columns change.                                             *)
(***************************************************************************)
Id100 == <<"1","0","0">>

Id7 == <<"7">>

\* the id extract_item_id gives for a URL without /items/<digits>
IdUnknown == <<"U","n","k","n","o","w","n","I","D">>

ItemIds == {Id100, Id7, IdUnknown}

Version100 == <<"1.0.0">>

Folder100 == <<"BoothItems/100_Cool_Prop">>

Folder7 == <<"BoothItems/7_7_D">>

FolderUnknown == <<"BoothItems/UnknownID_Hat">>

\* the columns of the rows that the engine never writes
Rows ==
  [i \in ItemIds |->
     IF i = Id100
     THEN [title |-> <<"C","o","o","l"," ","P","r","o","p">>,
           description |-> <<"x">>, folder |-> Folder100]
     ELSE IF i = Id7
     THEN \* a purchase imported by auth_cli: add_item without description
          [title |-> <<"7"," ","D">>, description |-> None, folder |-> Folder7]
     ELSE [title |-> <<"H","a","t">>, description |-> <<"y">>,
           folder |-> FolderUnknown]]

\* the files of the asset folders, each a path relative to the folder
InitAssets ==
  [f \in {Folder100, Folder7, FolderUnknown} |->
     IF f = Folder100
     THEN {<<"model.fbx">>, <<"metadata.json">>, <<"images", "preview.png">>,
           <<"sub", "a.txt">>, <<"sub", "metadata.json">>,
           <<"images", "deep", "b.png">>}
     ELSE IF f = FolderUnknown
     THEN {<<"metadata.json">>, <<"mesh", "hat.fbx">>}
     ELSE {}]

DbKeys == {"item_id", "title", "description", "folder",
           "package_id", "is_packaged", "package_version"}

\* Database.get_item: the dictionary built from a row
get_item(db, i) ==
  [keys |-> DbKeys, item_id |-> i, title |-> Rows[i].title,
   creator |-> None, description |-> Rows[i].description,
   folder |-> Rows[i].folder, package_id |-> db[i].package_id,
   is_packaged |-> db[i].is_packaged,
   package_version |-> db[i].package_version]

\* the rows in the order session.query(Item).all() yields them: the order
\* in which add_item inserted them
RowOrder == <<Id100, Id7, IdUnknown>>

\* Database.get_all_items: the list of the dictionaries of all rows
get_all_items(db) == [k \in DOMAIN RowOrder |-> get_item(db, RowOrder[k])]

\* a dictionary with the given keys; the other fields are never read
Dict(keys, base) == [base EXCEPT !.keys = keys]

\* dictionaries a caller can hand to the engine that are not database rows
CraftedItems(db) ==
  LET row == get_item(db, Id100)
      pid == generate_package_id(row)
  IN { \* the empty dictionary
       Dict({}, row),
       \* scrape_metadata's dictionary, as add_items passes it: no "folder"
       Dict({"item_id", "title", "description"}, row),
       \* dictionaries lacking "item_id" or "title"
       Dict(DbKeys \ {"item_id"}, row),
       Dict(DbKeys \ {"title"}, row),
       \* a dictionary that names a package but is not marked packaged
       [row EXCEPT !.package_id = pid, !.is_packaged = FALSE],
       \* a dictionary with the title "" and the creator None
       [Dict(DbKeys \cup {"creator"}, row) EXCEPT !.title = <<>>] }

ItemInputs(db) == {get_item(db, i) : i \in ItemIds} \cup CraftedItems(db)

\* "not item": the empty dictionary is falsy
IsFalsy(item) == item.keys = {}

(***************************************************************************)
(* The repository on disk and the database.  A world w has                 *)
(*   w.root, w.packages  whether <root> and <root>/Packages exist          *)
(*   w.pkgs              the directories under Packages/, by name          *)
(*   w.index             the content of <root>/index.json                  *)
(*   w.db                the package columns of every row                  *)
(*   w.assets            the files of the asset folders                    *)
(***************************************************************************)
NoFile == [kind |-> "missing"]

\* a file whose content is not valid JSON (also: a truncated write)
BadJson == [kind |-> "badjson"]

\* a file holding valid JSON that is not an object, such as []
NonObject == [kind |-> "nonobject"]

EmptyDir == [runtime |-> {}, docs |-> {}, readme |-> NoFile, manifest |-> NoFile]

DefaultRepoName == "Booth Assets Collection"

DefaultRepoId == "com.boothassetsmanager.repository"

DefaultRepoAuthor == "booth-assets-manager@example.com"

\* the values the user configured (settings.set_repository_name, ...)
ConfiguredRepoName == "My Booth Repository"

ConfiguredRepoId == "com.example.myrepo"

ConfiguredRepoAuthor == "me@example.com"

IndexFields == {"name", "id", "url", "author", "packages"}

\* the identifier and version stored, the row never marked packaged
update_package_info_unmarked(db, i, package_id, package_version, is_packaged) ==
  IF i \in DOMAIN db
  THEN [db EXCEPT ![i] = [package_id |-> package_id,
                          is_packaged |-> FALSE,
                          package_version |-> package_version]]
  ELSE db

\* Database.update_package_info: a row that does not exist is left alone
update_package_info(db, i, package_id, package_version, is_packaged) ==
  IF i \in DOMAIN db
  THEN [db EXCEPT ![i] = [package_id |-> package_id,
                          is_packaged |-> is_packaged,
                          package_version |-> package_version]]
  ELSE db

DescriptionLimit == 500

\* str.strip() for the blank character
RECURSIVE StripLeft(_)
StripLeft(text) ==
  IF text # <<>> /\ Head(text) = " " THEN StripLeft(Tail(text)) ELSE text

RECURSIVE StripRight(_)
StripRight(text) ==
  IF text # <<>> /\ text[Len(text)] = " "
  THEN StripRight(SubSeq(text, 1, Len(text) - 1))
  ELSE text

Strip(text) == StripRight(StripLeft(text))

\* description[:500]
Truncate(text) ==
  IF Len(text) > DescriptionLimit THEN SubSeq(text, 1, DescriptionLimit) ELSE text

\* create_package_manifest(item), version "1.0.0"
create_package_manifest(item) ==
  [kind |-> "object",
   keys |-> {"name", "displayName", "version", "description", "author", "url"},
   name |-> generate_package_id(item),
   displayName |-> Get(item, "title", <<"Booth Item">>),
   version |-> Version100,
   description |-> Truncate(Strip(Get(item, "description", <<>>))),
   author |-> Get(item, "creator", <<"Booth Creator">>),
   url |-> item.folder]

\* the README.md text of create_package_structure
ReadmeOf(item) ==
  [kind |-> "text", title |-> Get(item, "title", <<"Booth Item">>),
   description |-> Get(item, "description", <<"No description available.">>)]

AssetFiles(w, folder) == IF folder \in DOMAIN w.assets THEN w.assets[folder] ELSE {}

\* the files the os.walk loop of create_package_structure copies to Runtime/:
\* the walk skips the asset folder itself and every directory whose own
\* name is "images", and skips the files named metadata.json
CopiedToRuntime(files) ==
  {p \in files : /\ Len(p) >= 2
                 /\ p[Len(p) - 1] # "images"
                 /\ p[Len(p)] # "metadata.json"}

\* the regular files directly in <folder>/images, copied to Documentation~/images
CopiedToDocs(files) == {p[2] : p \in {q \in files : Len(q) = 2 /\ q[1] = "images"}}

\* os.makedirs(package_dir, exist_ok=True) and the Runtime/Documentation~ folders
MakePackageDirs(w, pid) ==
  [w EXCEPT !.root = TRUE, !.packages = TRUE,
            !.pkgs = [d \in DOMAIN w.pkgs \cup {pid} |->
                        IF d \in DOMAIN w.pkgs THEN w.pkgs[d] ELSE EmptyDir]]

\* a package.json that exists is left as it is
WithDir_keeping(w, pid, dir) ==
  [w EXCEPT !.pkgs[pid] =
     [dir EXCEPT !.manifest = IF w.pkgs[pid].manifest.kind = "missing"
                              THEN dir.manifest ELSE w.pkgs[pid].manifest]]

\* the world after a change to the directory Packages/<pid>
WithDir(w, pid, dir) == [w EXCEPT !.pkgs[pid] = dir]

(***************************************************************************)
(* generate_repository_index.  An operation is an operator from a world   *)
(* to the set of its possible outcomes [w, ok/ret, io]: w the world it     *)
(* leaves, io whether the environment made one of its file or database    *)
(* calls fail (disk full, permission denied, database locked).             *)
(***************************************************************************)
\* manifest.get("name"), manifest.get("version", "1.0.0")
ManifestName(m) == Get(m, "name", None)

ManifestVersion(m) == Get(m, "version", Version100)

ManifestKey(m) == <<ManifestName(m), ManifestVersion(m)>>

\* the directories whose package.json json.load returns as a dictionary
ObjectDirs(w) == {d \in DOMAIN w.pkgs : w.pkgs[d].manifest.kind = "object"}

\* the directories that get an entry: "if package_id:"
IndexedDirs(w) == {d \in ObjectDirs(w) : Truthy(ManifestName(w.pkgs[d].manifest))}

\* the directories on which manifest.get raises AttributeError
RaisingDirs(w) == {d \in DOMAIN w.pkgs : w.pkgs[d].manifest.kind = "nonobject"}

\* the possible repo_data["packages"]: one manifest per (name, version); when
\* two directories have the same pair the one os.listdir yields last stays
ScannedPackages(w) ==
  LET dirs == IF w.packages THEN IndexedDirs(w) ELSE {}
      manifests == {w.pkgs[d].manifest : d \in dirs}
      pairs == {ManifestKey(m) : m \in manifests}
  IN {pk \in [pairs -> manifests] : \A k \in pairs : ManifestKey(pk[k]) = k}

IndexObject(name, id, author, packages) ==
  [kind |-> "object", keys |-> IndexFields, name |-> name, id |-> id,
   author |-> author, packages |-> packages]

\* the old entries kept: index.json updated in place instead of rebuilt
generate_repository_index_merging(w, name, id, author) ==
  IF w.packages /\ RaisingDirs(w) # {}
  THEN {[w |-> w, ok |-> FALSE, io |-> FALSE]}
  ELSE IF ~w.root
  THEN {[w |-> w, ok |-> FALSE, io |-> FALSE]}
  ELSE {[w |-> [w EXCEPT !.index =
                  IndexObject(name, id, author,
                    [k \in DOMAIN pk \cup
                            (IF w.index.kind = "object"
                             THEN DOMAIN w.index.packages ELSE {}) |->
                       IF k \in DOMAIN pk THEN pk[k] ELSE w.index.packages[k]])],
         ok |-> TRUE, io |-> FALSE] : pk \in ScannedPackages(w)}
       \cup
       {[w |-> [w EXCEPT !.index = ix], ok |-> FALSE, io |-> TRUE] :
          ix \in {w.index, BadJson}}

generate_repository_index(w, name, id, author) ==
  IF w.packages /\ RaisingDirs(w) # {}
  THEN \* AttributeError leaves the scan before index.json is opened
       {[w |-> w, ok |-> FALSE, io |-> FALSE]}
  ELSE IF ~w.root
  THEN \* open(index_path, "w") in a directory that does not exist
       {[w |-> w, ok |-> FALSE, io |-> FALSE]}
  ELSE {[w |-> [w EXCEPT !.index = IndexObject(name, id, author, pk)],
         ok |-> TRUE, io |-> FALSE] : pk \in ScannedPackages(w)}
       \cup \* open fails, or the write fails after the file was truncated
       {[w |-> [w EXCEPT !.index = ix], ok |-> FALSE, io |-> TRUE] :
          ix \in {w.index, BadJson}}

\* generate_repository_index(repository_path): the default name, id, author
generate_default_index(w) ==
  generate_repository_index(w, DefaultRepoName, DefaultRepoId, DefaultRepoAuthor)

(***************************************************************************)
(* create_package_structure, package_item, unpackage_item.                 *)
(***************************************************************************)
Outcome(w, ret, io) == [w |-> w, ret |-> ret, io |-> io]

\* create_package_structure(item, repository_path) for an item with "item_id";
\* ok = FALSE when it raises
create_package_structure(w, item) ==
  LET pid == generate_package_id(item)
      w1 == MakePackageDirs(w, pid)
      files == AssetFiles(w, item.folder)
      runtime == CopiedToRuntime(files)
      docs == CopiedToDocs(files)
      dir1 == w1.pkgs[pid]
      dir2 == [dir1 EXCEPT !.runtime = @ \cup runtime, !.docs = @ \cup docs]
      dir3 == [dir2 EXCEPT !.readme = ReadmeOf(item)]
      dir4 == [dir3 EXCEPT !.manifest = create_package_manifest(item)]
      Raise(x, io) == [w |-> x, ok |-> FALSE, io |-> io]
  IN \* os.makedirs fails
     {Raise(w, TRUE)}
     \cup
     IF ~Has(item, "folder")
     THEN \* KeyError at item["folder"], after the directories were made
          {Raise(w1, FALSE)}
     ELSE \* shutil.copy2 fails after some of the files were copied
          {Raise(WithDir(w1, pid, [dir1 EXCEPT !.runtime = @ \cup done]), TRUE) :
             done \in (SUBSET runtime) \ {runtime}}
          \cup
          {Raise(WithDir(w1, pid, [dir2 EXCEPT !.docs = dir1.docs \cup done]), TRUE) :
             done \in (SUBSET docs) \ {docs}}
          \cup
          IF Get(item, "description", <<>>) = None
          THEN \* readme_content += None raises TypeError
               {Raise(WithDir(w1, pid, dir2), FALSE)}
          ELSE \* opening README.md fails
               {Raise(WithDir(w1, pid, dir2), TRUE)}
               \cup \* writing package.json fails, before or after truncation
               {Raise(WithDir(w1, pid, [dir3 EXCEPT !.manifest = m]), TRUE) :
                  m \in {dir3.manifest, BadJson}}
               \cup
               {[w |-> WithDir(w1, pid, dir4), ok |-> TRUE, io |-> FALSE]}

\* package_item after create_package_structure returned
PackageItemRecord(w, item) ==
  LET pid == generate_package_id(item)
      w1 == [w EXCEPT !.db = update_package_info(w.db, item.item_id, pid,
                                                  Version100, TRUE)]
  IN \* db.update_package_info raises (the session is rolled back)
     {Outcome(w, "False", TRUE)}
     \cup
     {IF ~g.ok THEN Outcome(g.w, "False", g.io)
      ELSE \* print(f"... {item['title']} ...") is inside the try block
           Outcome(g.w, IF Has(item, "title") THEN "True" ELSE "False", FALSE) :
        g \in generate_default_index(w1)}

\* package_item(item, repository_path, db); ret is "True", "False" or
\* "raised" when an exception leaves the function
package_item(w, item) ==
  IF IsFalsy(item) THEN {Outcome(w, "False", FALSE)}
  ELSE IF ~Has(item, "item_id")
  THEN \* KeyError in generate_package_id, then again in the except block,
       \* whose message reads item['item_id']
       {Outcome(w, "raised", FALSE)}
  ELSE UNION {IF ~c.ok THEN {Outcome(c.w, "False", c.io)}
              ELSE PackageItemRecord(c.w, item) :
                c \in create_package_structure(w, item)}

\* the asset folders emptied together with the package directory
RemoveDir_with_assets(w, pid) ==
  [w EXCEPT !.pkgs = [d \in DOMAIN w.pkgs \ {pid} |-> w.pkgs[d]],
            !.assets = [f \in DOMAIN w.assets |-> {}]]

\* shutil.rmtree(package_path) when the path exists
RemoveDir(w, pid) ==
  [w EXCEPT !.pkgs = [d \in DOMAIN w.pkgs \ {pid} |-> w.pkgs[d]]]

\* unpackage_item after the directory was removed
UnpackageItemRecord(w, item) ==
  IF ~Has(item, "item_id")
  THEN \* KeyError at item["item_id"], then again in the except block
       {Outcome(w, "raised", FALSE)}
  ELSE LET w1 == [w EXCEPT !.db = update_package_info(w.db, item.item_id,
                                                       None, None, FALSE)]
       IN {Outcome(w, "False", TRUE)}
          \cup
          {IF ~g.ok THEN Outcome(g.w, "False", g.io)
           ELSE Outcome(g.w, IF Has(item, "title") THEN "True" ELSE "False", FALSE) :
             g \in generate_default_index(w1)}

\* unpackage_item(item, repository_path, db)
unpackage_item(w, item) ==
  IF IsFalsy(item) THEN {Outcome(w, "False", FALSE)}
  ELSE IF ~Truthy(Get(item, "package_id", None))
  THEN \* the message reads item['item_id'], outside the try block
       {Outcome(w, IF Has(item, "item_id") THEN "False" ELSE "raised", FALSE)}
  ELSE LET pid == item.package_id
       IN IF w.packages /\ pid \in DOMAIN w.pkgs
          THEN \* shutil.rmtree fails: nothing or only the content was removed
               {Outcome(w, IF Has(item, "item_id") THEN "False" ELSE "raised", TRUE),
                Outcome(WithDir(w, pid, EmptyDir),
                        IF Has(item, "item_id") THEN "False" ELSE "raised", TRUE)}
               \cup UnpackageItemRecord(RemoveDir(w, pid), item)
          ELSE UnpackageItemRecord(w, item)

(***************************************************************************)
(* validate_repository.  It takes the repository path and nothing else:    *)
(* every check that fails is followed by its repair.  An outcome carries   *)
(* report, the lengths of the lists "issues" and "fixes" it returns, and    *)
(* unfixed, whether an issue was raised whose repair was not applied.      *)
(***************************************************************************)
\* index.json holding a JSON number, true, false or null
Scalar == [kind |-> "scalar"]

\* index.json holding an object without "url", "author" and "packages"
IndexLackingFields ==
  [kind |-> "object", keys |-> {"name", "id"}, name |-> DefaultRepoName,
   id |-> DefaultRepoId, author |-> None, packages |-> <<>>]

\* a check that found nothing
Checked(w) ==
  [w |-> w, issues |-> 0, fixes |-> 0, io |-> FALSE, unfixed |-> FALSE]

\* the missing root reported and left missing
ValidateRoot_reporting(w) ==
  IF w.root THEN {Checked(w)}
  ELSE {[w |-> w, issues |-> 1, fixes |-> 0, io |-> FALSE, unfixed |-> TRUE]}

\* "Check repository directory"
ValidateRoot(w) ==
  IF w.root THEN {Checked(w)}
  ELSE {[w |-> [w EXCEPT !.root = TRUE], issues |-> 1, fixes |-> 1, io |-> FALSE,
         unfixed |-> FALSE],
        \* os.makedirs raises: a second issue and no fix
        [w |-> w, issues |-> 2, fixes |-> 0, io |-> TRUE, unfixed |-> TRUE]}

\* a failed os.makedirs that leaves no entry in "issues"
ValidatePackages_swallowing(s) ==
  IF s.w.packages THEN {s}
  ELSE {[s EXCEPT !.w = [s.w EXCEPT !.root = TRUE, !.packages = TRUE],
                  !.issues = @ + 1, !.fixes = @ + 1],
        [s EXCEPT !.io = TRUE, !.unfixed = TRUE]}

\* "Check Packages directory"; os.makedirs makes the missing parents too
ValidatePackages(s) ==
  IF s.w.packages THEN {s}
  ELSE {[s EXCEPT !.w = [s.w EXCEPT !.root = TRUE, !.packages = TRUE],
                  !.issues = @ + 1, !.fixes = @ + 1],
        [s EXCEPT !.issues = @ + 2, !.io = TRUE, !.unfixed = TRUE]}

\* the directories without a well-formed package.json removed before the
\* index is generated
ValidateRegenerate_repairing(s) ==
  LET kept == {d \in DOMAIN s.w.pkgs : s.w.pkgs[d].manifest.kind = "object"}
      w1 == [s.w EXCEPT !.pkgs = [d \in kept |-> s.w.pkgs[d]]]
  IN {[w |-> g.w,
       issues |-> s.issues + (IF g.ok THEN 1 ELSE 2),
       fixes |-> s.fixes + (IF g.ok THEN 1 ELSE 0),
       io |-> s.io \/ g.io,
       unfixed |-> s.unfixed \/ ~g.ok] : g \in generate_default_index(w1)}

\* one issue, then generate_repository_index(repository_path) in a try block
ValidateRegenerate(s) ==
  {[w |-> g.w,
    issues |-> s.issues + (IF g.ok THEN 1 ELSE 2),
    fixes |-> s.fixes + (IF g.ok THEN 1 ELSE 0),
    io |-> s.io \/ g.io,
    unfixed |-> s.unfixed \/ ~g.ok] : g \in generate_default_index(s.w)}

\* the fields of required_fields for which "field not in index_data" holds
MissingFields(ix) ==
  IF ix.kind = "object" THEN IndexFields \ ix.keys ELSE IndexFields

\* "Check index.json"
ValidateIndex(s) ==
  LET ix == s.w.index
      issue == [s EXCEPT !.issues = @ + 1, !.unfixed = TRUE]
  IN IF ~s.w.root \/ ix.kind = "missing" THEN ValidateRegenerate(s)
     ELSE \* open or read fails: "except Exception" records it
          {[issue EXCEPT !.io = TRUE]}
          \cup
          IF ix.kind \in {"object", "nonobject"}
          THEN IF MissingFields(ix) # {} THEN ValidateRegenerate(s) ELSE {s}
          ELSE IF ix.kind = "scalar"
          THEN \* "field not in index_data" raises TypeError, which
               \* "except Exception" records without a repair
               {issue}
          ELSE \* json.JSONDecodeError
               ValidateRegenerate(s)

validate_repository(w) ==
  {[w |-> s.w,
    ret |-> IF s.issues = 0 \/ s.fixes = s.issues THEN "True" ELSE "False",
    io |-> s.io,
    report |-> [issues |-> s.issues, fixes |-> s.fixes, unfixed |-> s.unfixed]] :
     s \in UNION {ValidateIndex(p) :
                    p \in UNION {ValidatePackages(r) : r \in ValidateRoot(w)}}}

(***************************************************************************)
(* package_all_items.  items is the list db.get_all_items() returned at    *)
(* the start; a run s of the loop has the world s.w, the calls made so far *)
(* s.trace and s.io, whether an I/O call failed in it.  At most one I/O    *)
(* call fails in one run.                                                  *)
(***************************************************************************)
\* every item taken, the packaged ones too
NotMarkedPackaged_any(item) == TRUE

\* "if not item.get("is_packaged")"
NotMarkedPackaged(item) == ~Get(item, "is_packaged", FALSE)

\* the loop of package_all_items from items[k] on
RECURSIVE PackageEach(_, _, _)
PackageEach(s, items, k) ==
  IF k > Len(items) \/ s.raised THEN {s}
  ELSE IF ~NotMarkedPackaged(items[k]) THEN PackageEach(s, items, k + 1)
  ELSE UNION
         {PackageEach([w |-> o.w,
                       trace |-> Append(s.trace, [id |-> items[k].item_id,
                                                  ret |-> o.ret]),
                       io |-> s.io \/ o.io,
                       raised |-> o.ret = "raised"], items, k + 1) :
            o \in {x \in package_item(s.w, items[k]) : ~(s.io /\ x.io)}}

\* packaged_count
PackagedCount(trace) == Cardinality({k \in DOMAIN trace : trace[k].ret = "True"})

\* package_all_items(repository_path, db); ret is "returned" or "raised",
\* report.count the number it returns
package_all_items(w, items) ==
  UNION
    {LET count == PackagedCount(s.trace)
         Report(rebuilt) == [trace |-> s.trace, count |-> count, rebuilt |-> rebuilt]
     IN IF s.raised
        THEN {[w |-> s.w, ret |-> "raised", io |-> s.io, report |-> Report(FALSE)]}
        ELSE IF count > 0
        THEN \* the rebuild at the end is outside every try block
             {[w |-> g.w, ret |-> IF g.ok THEN "returned" ELSE "raised",
               io |-> s.io \/ g.io, report |-> Report(TRUE)] :
                g \in {x \in generate_default_index(s.w) : ~(s.io /\ x.io)}}
        ELSE {[w |-> s.w, ret |-> "returned", io |-> s.io, report |-> Report(FALSE)]} :
       s \in PackageEach([w |-> w, trace |-> <<>>, io |-> FALSE, raised |-> FALSE],
                         items, 1)}

(***************************************************************************)
(* State.                                                                  *)
(*   world  the repository, the database and the asset folders            *)
(*   last   the last engine call: its name, its item, what it returned,    *)
(*          whether an I/O call failed in it, and the world before it      *)
(*   rt     where the run is in a sequence package_item, unpackage_item,   *)
(*          package_item on one row, and the state after the first call    *)
(*   wr     the index.json write in progress, when the calls interleave    *)
(*          with a reader                                                  *)
(*   seen   what the reader of index.json read last                        *)
(*   calls  the number of engine calls made so far                         *)
(*   ext    the number of irregular events so far: changes made to the     *)
(*          repository from outside, engine calls in which an I/O call     *)
(*          failed, engine calls on a dictionary that is not a row         *)
(***************************************************************************)
VARIABLES world, last, rt, wr, seen, calls, ext

vars == <<world, last, rt, wr, seen, calls, ext>>

\* the number of engine calls in one behaviour
MaxCalls == 4

\* the number of irregular events in one behaviour
MaxExternal == 1

\* a directory under Packages/ that the engine did not create
ForeignDir == <<"f","o","r","e","i","g","n">>

ForeignName == <<"c","o","m",".","o","t","h","e","r",".","p","k","g">>

\* package.json files somebody else can have put into Packages/foreign
ForeignManifests ==
  { NoFile, BadJson, NonObject,
    \* the JSON object {}
    [kind |-> "object", keys |-> {}, name |-> None, version |-> None],
    \* a manifest without "version"
    [kind |-> "object", keys |-> {"name"}, name |-> ForeignName, version |-> None] }

\* the item of a call that takes none
NoItem == [keys |-> {"none"}]

InitWorld ==
  [root |-> FALSE, packages |-> FALSE, pkgs |-> <<>>, index |-> NoFile,
   db |-> [i \in ItemIds |-> [package_id |-> None, is_packaged |-> FALSE,
                              package_version |-> None]],
   assets |-> InitAssets]

NoDir == [kind |-> "missing"]

\* the package directory, database row and index that belong to row i
Snapshot(w, i) ==
  LET pid == generate_package_id(get_item(w.db, i))
  IN [dir |-> IF pid \in DOMAIN w.pkgs THEN w.pkgs[pid] ELSE NoDir,
      row |-> w.db[i], index |-> w.index]

RtIdle == [phase |-> 0, id |-> <<>>, snap |-> NoDir]

\* the item is the row as the database has it now
IsRow(w, item) ==
  /\ item.keys = DbKeys
  /\ item = get_item(w.db, item.item_id)

\* rt after the call op(item) with outcome o
RtAfter(op, item, o) ==
  IF o.io \/ ~IsRow(world, item) THEN RtIdle
  ELSE IF op = "package_item"
  THEN IF rt.phase = 2 /\ rt.id = item.item_id
       THEN [rt EXCEPT !.phase = 3]
       ELSE [phase |-> 1, id |-> item.item_id,
             snap |-> Snapshot(o.w, item.item_id)]
  ELSE IF op = "unpackage_item" /\ rt.phase = 1 /\ rt.id = item.item_id
  THEN [rt EXCEPT !.phase = 2]
  ELSE RtIdle

WrIdle == [pc |-> "idle"]

Init ==
  /\ world = InitWorld
  /\ last = [op |-> "none", item |-> NoItem, ret |-> "none", io |-> FALSE,
             pre |-> InitWorld]
  /\ rt = RtIdle
  /\ wr = WrIdle
  /\ seen = NoFile
  /\ calls = 0
  /\ ext = 0

NoPrior == [op |-> "none"]

\* the call before this one, when it was the same operation on the same item
Prior(op, item) ==
  IF last.op = op /\ last.item.keys = item.keys
     /\ (Has(item, "item_id") => last.item.item_id = item.item_id)
  THEN [op |-> last.op, ret |-> last.ret, io |-> last.io, pre |-> last.pre]
  ELSE NoPrior

NoReport == [none |-> TRUE]

\* what the call returned besides ret
ReportOf(o) == IF "report" \in DOMAIN o THEN o.report ELSE NoReport

\* one engine call with outcome o
Called(op, item, o) ==
  LET irregular == o.io \/ (item # NoItem /\ ~IsRow(world, item))
  IN /\ calls < MaxCalls
     /\ irregular => ext < MaxExternal
     /\ world' = o.w
     /\ last' = [op |-> op, item |-> item, ret |-> o.ret, io |-> o.io, pre |-> world,
                 prior |-> Prior(op, item), report |-> ReportOf(o)]
     /\ rt' = IF item = NoItem THEN RtIdle ELSE RtAfter(op, item, o)
     /\ UNCHANGED <<wr, seen>>
     /\ calls' = calls + 1
     /\ ext' = IF irregular THEN ext + 1 ELSE ext

\* Settings.ensure_repository_structure
ensure_repository_structure(w) == [w EXCEPT !.root = TRUE, !.packages = TRUE]

\* vcc_cli "enable": make the directories, write the index if there is none
EnableOutcomes(w) ==
  LET w1 == ensure_repository_structure(w)
  IN IF w1.index.kind # "missing" THEN {Outcome(w1, "True", FALSE)}
     ELSE {Outcome(g.w, IF g.ok THEN "True" ELSE "raised", g.io) :
             g \in generate_repository_index(w1, ConfiguredRepoName,
                                             ConfiguredRepoId, ConfiguredRepoAuthor)}

Enable ==
  \E o \in EnableOutcomes(world) : Called("enable", NoItem, o)

\* the entries of the previous index kept under another version
RegenerateOutcomes_accumulating(w) ==
  {LET new == g.w.index
       old == IF w.index.kind = "object" THEN DOMAIN w.index.packages ELSE {}
       kept == {<<k[1], k[2] \o <<"previous">> >> : k \in old}
   IN IF ~g.ok THEN Outcome(g.w, "raised", g.io)
      ELSE Outcome([g.w EXCEPT !.index.packages =
                      [k \in DOMAIN new.packages \cup kept |->
                         IF k \in DOMAIN new.packages THEN new.packages[k]
                         ELSE NoFile]], "True", FALSE) :
     g \in generate_repository_index(w, ConfiguredRepoName,
                                     ConfiguredRepoId, ConfiguredRepoAuthor)}

\* vcc_cli "regenerate"
RegenerateOutcomes(w) ==
  {Outcome(g.w, IF g.ok THEN "True" ELSE "raised", g.io) :
     g \in generate_repository_index(w, ConfiguredRepoName,
                                     ConfiguredRepoId, ConfiguredRepoAuthor)}

Regenerate ==
  \E o \in RegenerateOutcomes(world) : Called("generate_repository_index", NoItem, o)

PackageItem ==
  \E item \in ItemInputs(world.db) :
    \E o \in package_item(world, item) : Called("package_item", item, o)

UnpackageItem ==
  \E item \in ItemInputs(world.db) :
    \E o \in unpackage_item(world, item) : Called("unpackage_item", item, o)

\* somebody deletes the repository root
ExternalDeleteRoot ==
  /\ ext < MaxExternal
  /\ world.root
  /\ world' = [world EXCEPT !.root = FALSE, !.packages = FALSE,
                            !.pkgs = <<>>, !.index = NoFile]
  /\ last' = [op |-> "external", item |-> NoItem, ret |-> "none", io |-> FALSE,
              pre |-> world]
  /\ rt' = RtIdle
  /\ ext' = ext + 1
  /\ UNCHANGED <<wr, seen, calls>>

\* somebody puts a directory with some package.json into Packages/
ExternalWriteManifest ==
  /\ ext < MaxExternal
  /\ world.packages
  /\ \E m \in ForeignManifests :
       /\ world' = WithDir(MakePackageDirs(world, ForeignDir), ForeignDir,
                           [EmptyDir EXCEPT !.manifest = m])
       /\ world' # world
  /\ last' = [op |-> "external", item |-> NoItem, ret |-> "none", io |-> FALSE,
              pre |-> world]
  /\ rt' = RtIdle
  /\ ext' = ext + 1
  /\ UNCHANGED <<wr, seen, calls>>

Next ==
  \/ Enable
  \/ Regenerate
  \/ PackageItem
  \/ UnpackageItem
  \/ ExternalDeleteRoot
  \/ ExternalWriteManifest

Spec == Init /\ [][Next]_vars

(***************************************************************************)
(* Maintenance of a repository: the commands package, unpackage,           *)
(* package-all, regenerate and validate on the rows of the database, and   *)
(* changes somebody else makes to the repository in between.               *)
(***************************************************************************)
\* what index.json can hold after somebody else wrote or deleted it
ForeignIndexes == {NoFile, BadJson, NonObject, Scalar, IndexLackingFields}

\* somebody overwrites or deletes index.json
ExternalWriteIndex ==
  /\ ext < MaxExternal
  /\ world.root
  /\ \E ix \in ForeignIndexes :
       /\ world' = [world EXCEPT !.index = ix]
       /\ world' # world
  /\ last' = [op |-> "external", item |-> NoItem, ret |-> "none", io |-> FALSE,
              pre |-> world]
  /\ rt' = RtIdle
  /\ ext' = ext + 1
  /\ UNCHANGED <<wr, seen, calls>>

\* vcc_cli "validate" with or without --fix: the option is read only when
\* the result is printed
ValidateCommand(w, fix) ==
  {[o EXCEPT !.report = [issues |-> o.report.issues, fixes |-> o.report.fixes,
                         unfixed |-> o.report.unfixed, fix |-> fix]] :
     o \in validate_repository(w)}

Validate ==
  \E fix \in BOOLEAN :
    \E o \in ValidateCommand(world, fix) : Called("validate_repository", NoItem, o)

\* vcc_cli "package-all"
PackageAll ==
  \E o \in package_all_items(world, get_all_items(world.db)) :
    Called("package_all_items", NoItem, o)

\* vcc_cli "package <item_id>": the item is db.get_item(item_id)
PackageRow ==
  \E i \in ItemIds :
    \E o \in package_item(world, get_item(world.db, i)) :
      Called("package_item", get_item(world.db, i), o)

\* vcc_cli "unpackage <item_id>"
UnpackageRow ==
  \E i \in ItemIds :
    \E o \in unpackage_item(world, get_item(world.db, i)) :
      Called("unpackage_item", get_item(world.db, i), o)

NextMaint ==
  \/ PackageRow
  \/ UnpackageRow
  \/ PackageAll
  \/ Regenerate
  \/ Validate
  \/ ExternalDeleteRoot
  \/ ExternalWriteManifest
  \/ ExternalWriteIndex

SpecMaint == Init /\ [][NextMaint]_vars

(***************************************************************************)
(* Import.  organizer.add_items with VCC integration and auto-packaging    *)
(* switched on in the settings, for an input file that names one item: the *)
(* row is added or updated, package_item is called on the metadata         *)
(* dictionary of the import, and the index is regenerated with the         *)
(* configured name, id and author; both calls are inside try blocks.       *)
(***************************************************************************)
\* the dictionary ensure_item_folder returns: what scrape_metadata built
ImportedMetadata(db, i) ==
  Dict({"item_id", "title", "description"}, get_item(db, i))

\* add_items for the item i; report.packaged is what package_item returned
add_items(w, i) ==
  UNION
    {{[w |-> g.w, ret |-> "returned", io |-> o.io \/ g.io,
       report |-> [id |-> i, packaged |-> o.ret = "True"]] :
        g \in {x \in generate_repository_index(o.w, ConfiguredRepoName,
                       ConfiguredRepoId, ConfiguredRepoAuthor) : ~(o.io /\ x.io)}} :
       o \in package_item(w, ImportedMetadata(w.db, i))}

AddItems ==
  \E i \in ItemIds :
    \E o \in add_items(world, i) : Called("add_items", NoItem, o)

(***************************************************************************)
(* test_vcc_integration and the script test_vcc.py.                        *)
(***************************************************************************)
\* every package counted as missing its "versions"
test_vcc_integration_unversioned(w) ==
  LET exists == w.root /\ w.index.kind # "missing"
      valid == /\ exists
               /\ w.index.kind = "object"
               /\ {"name", "id", "url", "packages"} \subseteq w.index.keys
  IN [repository_exists |-> w.root, index_valid |-> valid, packages_found |-> 0,
      vcc_protocol_works |-> exists,
      overall_status |-> IF w.root /\ valid THEN "Empty Repository" ELSE "Failed"]

\* test_vcc_integration(repository_path): it only reads
test_vcc_integration(w) ==
  LET exists == w.root /\ w.index.kind # "missing"
      \* json.load raises, or a field is not in index_data, or the
      \* membership test raises: index_valid stays False
      valid == /\ exists
               /\ w.index.kind = "object"
               /\ {"name", "id", "url", "packages"} \subseteq w.index.keys
      found == IF valid THEN Cardinality(DOMAIN w.index.packages) ELSE 0
  IN [repository_exists |-> w.root, index_valid |-> valid,
      packages_found |-> found,
      \* get_vcc_protocol_url needs index.json to exist
      vcc_protocol_works |-> exists,
      overall_status |->
        IF w.root /\ valid
        THEN IF found > 0
             THEN IF exists THEN "Ready" ELSE "Ready (Manual Addition)"
             ELSE "Empty Repository"
        ELSE "Failed"]

\* the status of a run that did not reach test_vcc_integration
NoStatus == [overall_status |-> "none"]

\* test_vcc.py main for the item i, steps 2 to 6; ret is the exit code, or
\* "raised"; report.step is the last step reached
test_vcc_main(w, i) ==
  LET w1 == ensure_repository_structure(w)
      Stop(x, ret, io, step, packaged) ==
        [w |-> x, ret |-> ret, io |-> io,
         report |-> [step |-> step, packaged |-> packaged, valid |-> FALSE,
                     issues |-> 0, status |-> NoStatus]]
  IN UNION
       {IF o.ret # "True"
        THEN {Stop(o.w, IF o.ret = "raised" THEN "raised" ELSE "1", o.io,
                   "package", FALSE)}
        ELSE UNION
               {IF ~g.ok THEN {Stop(g.w, "raised", g.io, "index", TRUE)}
                ELSE {[w |-> v.w,
                       ret |-> IF v.ret = "True" THEN "0" ELSE "1",
                       io |-> v.io,
                       report |-> [step |-> IF v.ret = "True" THEN "status"
                                            ELSE "validate",
                                   packaged |-> TRUE,
                                   valid |-> v.ret = "True",
                                   issues |-> v.report.issues,
                                   status |-> IF v.ret = "True"
                                              THEN test_vcc_integration(v.w)
                                              ELSE NoStatus]] :
                        v \in validate_repository(g.w)} :
                  g \in generate_repository_index(o.w, ConfiguredRepoName,
                          ConfiguredRepoId, ConfiguredRepoAuthor)} :
          o \in package_item(w1, get_item(w1.db, i))}

TestVcc ==
  \E i \in ItemIds :
    \E o \in test_vcc_main(world, i) : Called("test_vcc", get_item(world.db, i), o)

\* the user deletes or renames a file of an asset folder
ExternalRemoveAssetFile ==
  /\ ext < MaxExternal
  /\ \E f \in DOMAIN world.assets :
       \E p \in world.assets[f] :
         world' = [world EXCEPT !.assets[f] = @ \ {p}]
  /\ last' = [op |-> "external", item |-> NoItem, ret |-> "none", io |-> FALSE,
              pre |-> world]
  /\ rt' = RtIdle
  /\ ext' = ext + 1
  /\ UNCHANGED <<wr, seen, calls>>

NextImport ==
  \/ AddItems
  \/ TestVcc
  \/ Enable
  \/ PackageRow
  \/ UnpackageRow
  \/ ExternalDeleteRoot

SpecImport == Init /\ [][NextImport]_vars

\* packaging again after the asset folders changed
NextAssets ==
  \/ PackageRow
  \/ UnpackageRow
  \/ ExternalRemoveAssetFile

SpecAssets == Init /\ [][NextAssets]_vars

(***************************************************************************)
(* The same calls next to a reader of index.json (the package manager     *)
(* client).  generate_repository_index writes the file in place:          *)
(* open(index_path, "w") truncates it, json.dump writes the text through   *)
(* the file buffer, leaving the with block closes it.  The reader can read *)
(* the file between any two of these steps.                                *)
(***************************************************************************)
\* index.json right after open(index_path, "w")
Truncated == [kind |-> "empty"]

\* index.json holding the first part of the text
Partial == [kind |-> "partial"]

\* a call whose last step is the index write starts and opens index.json
WriteStart(op, item, o) ==
  /\ wr.pc = "idle"
  /\ calls < MaxCalls
  /\ o.ret = "True" /\ ~o.io
  /\ world' = [o.w EXCEPT !.index = Truncated]
  /\ wr' = [pc |-> "dump", index |-> o.w.index, op |-> op, item |-> item,
            pre |-> world]
  /\ UNCHANGED <<last, rt, seen, calls, ext>>

WriteStartPackage ==
  \E i \in ItemIds :
    \E o \in package_item(world, get_item(world.db, i)) :
      WriteStart("package_item", get_item(world.db, i), o)

WriteStartUnpackage ==
  \E i \in ItemIds :
    \E o \in unpackage_item(world, get_item(world.db, i)) :
      WriteStart("unpackage_item", get_item(world.db, i), o)

WriteStartRegenerate ==
  \E o \in RegenerateOutcomes(world) :
    WriteStart("generate_repository_index", NoItem, o)

\* the buffer is flushed before the text is complete
WriteDump ==
  /\ wr.pc = "dump"
  /\ world' = [world EXCEPT !.index = Partial]
  /\ wr' = [wr EXCEPT !.pc = "close"]
  /\ UNCHANGED <<last, rt, seen, calls, ext>>

\* the file is closed and the call returns
WriteClose ==
  /\ wr.pc \in {"dump", "close"}
  /\ world' = [world EXCEPT !.index = wr.index]
  /\ last' = [op |-> wr.op, item |-> wr.item, ret |-> "True", io |-> FALSE,
              pre |-> wr.pre]
  /\ wr' = WrIdle
  /\ rt' = RtIdle
  /\ calls' = calls + 1
  /\ UNCHANGED <<seen, ext>>

\* the client reads index.json
ReadIndex ==
  /\ seen' = world.index
  /\ UNCHANGED <<world, last, rt, wr, calls, ext>>

NextIO ==
  \/ WriteStartPackage
  \/ WriteStartUnpackage
  \/ WriteStartRegenerate
  \/ WriteDump
  \/ WriteClose
  \/ ReadIndex

SpecIO == Init /\ [][NextIO]_vars

(***************************************************************************)
(* The GUI.  "Package" starts package_item in a Worker thread and, when it *)
(* returned True, package_item_finished regenerates the index in the main  *)
(* thread; "Regenerate" starts generate_repository_index in another Worker *)
(* thread.  Nothing synchronises the threads.  wr holds where the two      *)
(* threads are: wr.p and wr.pscan for the package thread and its           *)
(* completion handler, wr.r and wr.rscan for the regenerate thread; a scan *)
(* is the repo_data["packages"] the thread built from Packages/ and has    *)
(* not yet written.                                                        *)
(***************************************************************************)
NoScan == <<>>

\* the user clicks "Package" on a row and "Regenerate"
GuiStart ==
  /\ wr.pc = "idle"
  /\ calls < MaxCalls
  /\ \E i \in ItemIds :
       wr' = [pc |-> "gui", item |-> get_item(world.db, i), pre |-> world,
              p |-> "structure", pscan |-> NoScan,
              r |-> "scan", rscan |-> NoScan]
  /\ UNCHANGED <<world, last, rt, seen, calls, ext>>

\* package thread: create_package_structure up to open(package.json, "w")
GuiStructure ==
  /\ wr.pc = "gui" /\ wr.p = "structure"
  /\ \E c \in {x \in create_package_structure(world, wr.item) : ~x.io} :
       IF c.ok
       THEN LET pid == generate_package_id(wr.item)
            IN /\ world' = WithDir(c.w, pid, [c.w.pkgs[pid] EXCEPT !.manifest = BadJson])
               /\ wr' = [wr EXCEPT !.p = "manifest"]
       ELSE /\ world' = c.w
            /\ wr' = [wr EXCEPT !.p = "failed"]
  /\ UNCHANGED <<last, rt, seen, calls, ext>>

\* package thread: json.dump(manifest) and the end of the with block
GuiManifest ==
  /\ wr.pc = "gui" /\ wr.p = "manifest"
  /\ world' = WithDir(world, generate_package_id(wr.item),
                      [world.pkgs[generate_package_id(wr.item)]
                         EXCEPT !.manifest = create_package_manifest(wr.item)])
  /\ wr' = [wr EXCEPT !.p = "record"]
  /\ UNCHANGED <<last, rt, seen, calls, ext>>

\* package thread: db.update_package_info
GuiRecord ==
  /\ wr.pc = "gui" /\ wr.p = "record"
  /\ world' = [world EXCEPT !.db =
                 update_package_info(world.db, wr.item.item_id,
                                     generate_package_id(wr.item), Version100, TRUE)]
  /\ wr' = [wr EXCEPT !.p = "scan"]
  /\ UNCHANGED <<last, rt, seen, calls, ext>>

\* package thread, then its completion handler: the scan of Packages/
GuiPackageScan ==
  /\ wr.pc = "gui" /\ wr.p \in {"scan", "finished_scan"}
  /\ \E pk \in ScannedPackages(world) :
       wr' = [wr EXCEPT !.pscan = pk,
                        !.p = IF wr.p = "scan" THEN "write" ELSE "finished_write"]
  /\ UNCHANGED <<world, last, rt, seen, calls, ext>>

\* package thread: the index written with the default name, id and author;
\* then package_item_finished: written with the configured ones
GuiPackageWrite ==
  /\ wr.pc = "gui" /\ wr.p \in {"write", "finished_write"}
  /\ world' = [world EXCEPT !.index =
                 IF wr.p = "write"
                 THEN IndexObject(DefaultRepoName, DefaultRepoId,
                                  DefaultRepoAuthor, wr.pscan)
                 ELSE IndexObject(ConfiguredRepoName, ConfiguredRepoId,
                                  ConfiguredRepoAuthor, wr.pscan)]
  /\ wr' = [wr EXCEPT !.p = IF wr.p = "write" THEN "finished_scan" ELSE "done",
                      !.pscan = NoScan]
  /\ UNCHANGED <<last, rt, seen, calls, ext>>

\* regenerate thread: the scan of Packages/
GuiRegenerateScan ==
  /\ wr.pc = "gui" /\ wr.r = "scan"
  /\ \E pk \in ScannedPackages(world) :
       wr' = [wr EXCEPT !.rscan = pk, !.r = "write"]
  /\ UNCHANGED <<world, last, rt, seen, calls, ext>>

\* regenerate thread: the index written
GuiRegenerateWrite ==
  /\ wr.pc = "gui" /\ wr.r = "write"
  /\ world' = [world EXCEPT !.index =
                 IndexObject(ConfiguredRepoName, ConfiguredRepoId,
                             ConfiguredRepoAuthor, wr.rscan)]
  /\ wr' = [wr EXCEPT !.r = "done", !.rscan = NoScan]
  /\ UNCHANGED <<last, rt, seen, calls, ext>>

\* both threads have ended
GuiEnd ==
  /\ wr.pc = "gui" /\ wr.p \in {"done", "failed"} /\ wr.r = "done"
  /\ last' = [op |-> "gui_package", item |-> wr.item,
              ret |-> IF wr.p = "done" THEN "True" ELSE "False", io |-> FALSE,
              pre |-> wr.pre]
  /\ wr' = WrIdle
  /\ rt' = RtIdle
  /\ calls' = calls + 1
  /\ UNCHANGED <<world, seen, ext>>

NextGui ==
  \/ GuiStart
  \/ GuiStructure
  \/ GuiManifest
  \/ GuiRecord
  \/ GuiPackageScan
  \/ GuiPackageWrite
  \/ GuiRegenerateScan
  \/ GuiRegenerateWrite
  \/ GuiEnd

SpecGui == Init /\ [][NextGui]_vars

(***************************************************************************)
(* Properties.                                                             *)
(***************************************************************************)
\* the last call was op and it returned ret
Returned(op, ret) == last.op = op /\ last.ret = ret

\* the last call was op on a row of the database, without an I/O failure
RowCall(op) == last.op = op /\ ~last.io /\ IsRow(last.pre, last.item)

\* the path lies beneath a directory named images
UnderImages(p) == \E k \in 1..(Len(p) - 1) : p[k] = "images"

\* the names index.json lists
IndexedNames(ix) ==
  IF ix.kind = "object" THEN {k[1] : k \in DOMAIN ix.packages} ELSE {}

\* C1: after package_item succeeds, every file of the asset folder that is
\* not beneath a directory named images and is not named metadata.json is
\* in Runtime/ at the same relative path, the files directly in the asset
\* folder included.
C1_RuntimeHoldsEveryAssetFile ==
  Returned("package_item", "True") =>
    LET pid == generate_package_id(last.item)
    IN \A p \in AssetFiles(world, last.item.folder) :
         (~UnderImages(p) /\ p[Len(p)] # "metadata.json")
           => (pid \in DOMAIN world.pkgs /\ p \in world.pkgs[pid].runtime)

CoolPropDotted ==
  <<"c","o","m",".","b","o","o","t","h",".","c","o","o","l",".",
    "p","r","o","p",".","1","0","0">>

\* C2: for the item without creator, with title "Cool Prop" and item_id
\* "100", the identifier is "com.booth.cool.prop.100", and after package_item
\* the package directory and the index key have that name.
C2_CoolPropIdentifier ==
  (/\ Returned("package_item", "True")
   /\ ~Has(last.item, "creator")
   /\ last.item.title = <<"C","o","o","l"," ","P","r","o","p">>
   /\ last.item.item_id = Id100)
  => /\ generate_package_id(last.item) = CoolPropDotted
     /\ CoolPropDotted \in DOMAIN world.pkgs
     /\ CoolPropDotted \in IndexedNames(world.index)

\* the (name, version) pairs index.json lists
IndexedPairs(ix) == IF ix.kind = "object" THEN DOMAIN ix.packages ELSE {}

\* C3 as stated: after generate_repository_index returns, the index has an
\* entry for every package.json that parses, and nothing else.
C3_IndexListsEveryParsedManifest ==
  Returned("generate_repository_index", "True") =>
    IndexedPairs(world.index) =
      {ManifestKey(world.pkgs[d].manifest) : d \in ObjectDirs(world)}

\* C3, amended: after generate_repository_index returns, the index has
\* exactly one (name, version) entry, holding the manifest, for every
\* package.json that parses to an object with a non-empty name, and nothing
\* else; no entry of the previous index survives on its own.
C3_IndexListsEveryNamedManifest ==
  Returned("generate_repository_index", "True") =>
    /\ world.index.kind = "object"
    /\ DOMAIN world.index.packages =
         {ManifestKey(world.pkgs[d].manifest) : d \in IndexedDirs(world)}
    /\ \A k \in DOMAIN world.index.packages :
         \E d \in IndexedDirs(world) :
           /\ world.pkgs[d].manifest = world.index.packages[k]
           /\ ManifestKey(world.pkgs[d].manifest) = k

\* a rebuild that dropped the entry of a removed package and kept another
C3_StaleEntryGone ==
  /\ Returned("generate_repository_index", "True")
  /\ IndexedPairs(world.index) # {}
  /\ \E k \in IndexedPairs(last.pre.index) : k \notin IndexedPairs(world.index)

\* C4: generate_repository_index completes and writes the index whatever
\* Packages/ holds; a directory whose package.json is missing or malformed
\* is left out and the well-formed packages are listed.
C4_RebuildNeverFails ==
  (last.op = "generate_repository_index" /\ ~last.io /\ last.pre.packages) =>
    /\ last.ret = "True"
    /\ world.index.kind = "object"
    /\ IndexedPairs(world.index) =
         {ManifestKey(world.pkgs[d].manifest) : d \in IndexedDirs(world)}

\* C5: a reader of index.json that runs next to package_item,
\* unpackage_item or generate_repository_index only ever reads a complete
\* index (or finds no file): never an empty or partly written one.
C5_ReaderSeesCompleteIndex == seen.kind \in {"missing", "object"}

\* C6: package_item returns False and never raises, whatever fails in it.
C6_PackageItemNeverRaises ==
  last.op = "package_item" => last.ret \in {"True", "False"}

\* C7: whenever package_item returns False, the package columns of the
\* database are what they were before the call.
\* (Stated for the rows of the database.)
C7_FailedPackagingLeavesDatabase ==
  (Returned("package_item", "False") /\ IsRow(last.pre, last.item))
    => world.db = last.pre.db

\* C8: package_item, unpackage_item, package_item on one row, with nothing
\* else happening in between, ends in the package directory, row and index
\* that the first package_item left; the package directory does not exist
\* after the unpackage_item and exists after the last package_item.
C8_RoundTrip ==
  /\ rt.phase = 2 =>
       generate_package_id(get_item(world.db, rt.id)) \notin DOMAIN world.pkgs
  /\ rt.phase = 3 =>
       /\ Snapshot(world, rt.id) = rt.snap
       /\ generate_package_id(get_item(world.db, rt.id)) \in DOMAIN world.pkgs

\* C9: unpackage_item on an item with a non-empty package_id returns True
\* and leaves the package directory absent, the row cleared and the
\* identifier absent from the index, also when the directory or the whole
\* repository root was already gone.  (Stated for rows of the database,
\* calls without I/O failure and repositories without a non-object
\* package.json.)
C9_UnpackageSucceeds ==
  (/\ RowCall("unpackage_item")
   /\ Truthy(last.item.package_id)
   /\ RaisingDirs(last.pre) = {})
  => /\ last.ret = "True"
     /\ last.item.package_id \notin DOMAIN world.pkgs
     /\ world.db[last.item.item_id] =
          [package_id |-> None, is_packaged |-> FALSE, package_version |-> None]
     /\ last.item.package_id \notin IndexedNames(world.index)

\* C10: unpackage_item on an item that is not marked packaged or has no
\* package_id returns False and changes nothing.  (Stated for dictionaries
\* that have "item_id" and "title" and calls without I/O failure.)
C10_UnpackageUnpackagedIsNoOp ==
  (/\ last.op = "unpackage_item"
   /\ ~last.io
   /\ Has(last.item, "item_id") /\ Has(last.item, "title")
   /\ \/ ~Get(last.item, "is_packaged", FALSE)
      \/ ~Truthy(Get(last.item, "package_id", None)))
  => /\ last.ret = "False"
     /\ world = last.pre

\* index.json parses to an object that has the five top-level fields
WellFormedIndex(ix) == ix.kind = "object" /\ IndexFields \subseteq ix.keys

\* the last call was validate_repository, without an I/O failure
Validated == last.op = "validate_repository" /\ ~last.io

\* C11: validate_repository run when the repository root does not exist
\* leaves the root, Packages/ and a well-formed index.json and returns
\* valid = true; a validate_repository run right after it reports no issue.
\* (Stated for runs in which no I/O call fails.)
C11_ValidateRestoresDeletedRoot ==
  /\ (Validated /\ ~last.pre.root) =>
       /\ world.root /\ world.packages
       /\ WellFormedIndex(world.index)
       /\ last.ret = "True"
  /\ (/\ Validated
      /\ last.prior.op = "validate_repository"
      /\ ~last.prior.io
      /\ ~last.prior.pre.root)
     => last.report.issues = 0

\* validate_repository twice after the root of a repository with a packaged
\* item was deleted
C11_RestoredThenClean ==
  /\ Validated
  /\ last.prior.op = "validate_repository"
  /\ ~last.prior.io
  /\ ~last.prior.pre.root
  /\ \E i \in ItemIds : last.prior.pre.db[i].is_packaged
  /\ last.report.issues = 0
  /\ WellFormedIndex(world.index)

\* C12: when index.json exists and is not a well-formed index (invalid
\* JSON, JSON that is not an object, an object lacking a field),
\* validate_repository records an issue and regenerates the index: after
\* the call index.json parses and has the five fields.  (Stated for runs in
\* which no I/O call fails.)
C12_MalformedIndexRegenerated ==
  (/\ Validated
   /\ last.pre.root
   /\ last.pre.index.kind # "missing"
   /\ ~WellFormedIndex(last.pre.index))
  => /\ last.report.issues >= 1
     /\ WellFormedIndex(world.index)

\* C13: validate without the fix option only reports: the repository root,
\* Packages/ and index.json are after the call what they were before it.
C13_ValidateWithoutFixOnlyReports ==
  (last.op = "validate_repository" /\ ~last.report.fix) =>
    /\ world.root = last.pre.root
    /\ world.packages = last.pre.packages
    /\ world.index = last.pre.index

\* C14: validate_repository leaves every directory under Packages/ and
\* every file in it as it was, a malformed package.json included; it only
\* makes the root and Packages/ and rewrites index.json.
C14_ValidateLeavesPackageDirectories ==
  last.op = "validate_repository" =>
    /\ world.pkgs = last.pre.pkgs
    /\ world.db = last.pre.db
    /\ world.assets = last.pre.assets

\* validate_repository repaired a repository that holds a package directory
\* without a well-formed package.json
C14_RepairedNextToMalformedPackage ==
  /\ last.op = "validate_repository"
  /\ last.report.fixes >= 1
  /\ world.index # last.pre.index
  /\ \E d \in DOMAIN world.pkgs : world.pkgs[d].manifest.kind # "object"

\* the text matches ^[a-z][a-z0-9.]*$
MatchesIdPattern(text) ==
  /\ text # <<>>
  /\ IsLower(text[1])
  /\ \A k \in DOMAIN text : IsLower(text[k]) \/ IsDigit(text[k]) \/ text[k] = "."

\* C15: generate_package_id is a function of creator, title and item_id,
\* and for every item that has an item_id, the "UnknownID" of
\* extract_item_id included, its value matches ^[a-z][a-z0-9.]*$.
C15_IdentifierMatchesPattern ==
  (last.op = "package_item" /\ Has(last.item, "item_id")) =>
    MatchesIdPattern(generate_package_id(last.item))

ComBoothDot == <<"c","o","m",".","b","o","o","t","h",".">>

IsPrefix(p, text) == Len(p) <= Len(text) /\ SubSeq(text, 1, Len(p)) = p

IsSuffix(p, text) ==
  Len(p) <= Len(text) /\ SubSeq(text, Len(text) - Len(p) + 1, Len(text)) = p

\* C16: for an item with the title "" and the creator None the identifier
\* starts with "com.booth." and ends with the item_id, and deriving it
\* raises nothing.
C16_EmptyTitleNoCreator ==
  (/\ last.op = "package_item"
   /\ Has(last.item, "item_id")
   /\ Get(last.item, "title", None) = <<>>
   /\ Get(last.item, "creator", None) = None)
  => /\ last.ret # "raised"
     /\ IsPrefix(ComBoothDot, generate_package_id(last.item))
     /\ IsSuffix(last.item.item_id, generate_package_id(last.item))

\* the rows not marked packaged before the last call
UnpackagedAtStart == {i \in ItemIds : ~last.pre.db[i].is_packaged}

\* C17: package_all_items calls package_item once for every item not marked
\* packaged at the start and for no other item, goes on after an item that
\* fails, no item makes it raise, it returns the number of items whose
\* package_item returned True, and when that number is zero it does not
\* rebuild the index at the end.
C17_PackageAllTakesEachUnpackagedItemOnce ==
  last.op = "package_all_items" =>
    LET trace == last.report.trace
    IN /\ {trace[k].id : k \in DOMAIN trace} = UnpackagedAtStart
       /\ Len(trace) = Cardinality(UnpackagedAtStart)
       /\ \A k \in DOMAIN trace : trace[k].ret \in {"True", "False"}
       /\ last.report.count =
            Cardinality({k \in DOMAIN trace : trace[k].ret = "True"})
       /\ last.report.count = 0 => (~last.report.rebuilt /\ last.ret = "returned")
       /\ last.ret = "raised" => (last.report.rebuilt /\ last.io)

\* package_all_items skipped a packaged row and packaged a row after the
\* packaging of another one failed
C17_WentOnAfterFailure ==
  /\ last.op = "package_all_items"
  /\ last.ret = "returned"
  /\ UnpackagedAtStart # ItemIds
  /\ last.report.count >= 1
  /\ \E j, k \in DOMAIN last.report.trace :
       /\ j < k
       /\ last.report.trace[j].ret = "False"
       /\ last.report.trace[k].ret = "True"

EngineOperations ==
  {"package_item", "unpackage_item", "package_all_items",
   "generate_repository_index", "validate_repository"}

\* C18: no engine operation, whether it succeeds or fails, creates, changes
\* or deletes a file or directory of an item's asset folder.
C18_AssetFoldersUntouched ==
  last.op \in EngineOperations => world.assets = last.pre.assets

\* unpackage_item removed a package directory that held copies of files of
\* the asset folder
C18_UnpackagedCopiedFiles ==
  /\ Returned("unpackage_item", "True")
  /\ last.item.package_id \in DOMAIN last.pre.pkgs
  /\ last.pre.pkgs[last.item.package_id].runtime # {}
  /\ last.item.package_id \notin DOMAIN world.pkgs
  /\ AssetFiles(world, last.item.folder) # {}

\* what complete runs of package_item on row i can leave, started in w
SingleRun(w, i) ==
  {Snapshot(o.w, i) :
     o \in {x \in package_item(w, get_item(w.db, i)) : x.ret = "True"}}

\* the last two calls were package_item on one row, the first failed and
\* the second ran to completion
Retried ==
  /\ RowCall("package_item")
  /\ last.ret = "True"
  /\ last.prior.op = "package_item"
  /\ last.prior.ret = "False"

\* C19: when a package_item attempt fails at some step and a package_item
\* on the same item right after it runs to completion, the package
\* directory, the manifest, the row and the index are what one complete
\* package_item started before the failed attempt leaves.
C19_RetryEqualsSingleRun ==
  Retried => Snapshot(world, last.item.item_id)
               \in SingleRun(last.prior.pre, last.item.item_id)

\* a retry that completed a package directory the failed attempt had left
\* unfinished
C19_RetryRepairedDirectory ==
  /\ Retried
  /\ last.prior.io
  /\ generate_package_id(last.item) \in DOMAIN last.pre.pkgs
  /\ last.pre.pkgs[generate_package_id(last.item)]
       # world.pkgs[generate_package_id(last.item)]

\* the last two calls were generate_repository_index with the same
\* arguments and both returned
RebuiltTwice ==
  /\ Returned("generate_repository_index", "True")
  /\ last.prior.op = "generate_repository_index"
  /\ last.prior.ret = "True"

\* C20: generate_repository_index called twice with the same arguments and
\* nothing changed in between writes the same index both times: the same
\* identifiers and versions with the same manifests.
C20_RebuildTwiceSameIndex ==
  RebuiltTwice => /\ world.index = last.pre.index
                  /\ IndexedPairs(world.index) = IndexedPairs(last.pre.index)

\* two rebuilds in a row of an index that lists a package
C20_RebuiltTwiceWithPackages ==
  /\ RebuiltTwice
  /\ IndexedPairs(world.index) # {}

\* C21: with VCC integration and auto-packaging enabled, after add_items
\* returns the imported item is marked packaged in the database and its
\* identifier is listed in index.json.  (Stated for runs in which no I/O
\* call fails.)
C21_ImportPackagesItem ==
  (last.op = "add_items" /\ ~last.io) =>
    /\ world.db[last.report.id].is_packaged
    /\ generate_package_id(get_item(world.db, last.report.id))
         \in IndexedNames(world.index)

\* C22: after ensure_repository_structure, a package_item that returns True
\* and a generate_repository_index, validate_repository reports valid =
\* true with no issue, and test_vcc_integration reports repository_exists,
\* index_valid, packages_found >= 1 and the overall status "Ready".
\* (Stated for runs in which no I/O call fails.)
C22_SelfTestReady ==
  (last.op = "test_vcc" /\ ~last.io /\ last.report.packaged) =>
    /\ last.report.valid
    /\ last.report.issues = 0
    /\ last.report.status.overall_status = "Ready"
    /\ last.report.status.repository_exists
    /\ last.report.status.index_valid
    /\ last.report.status.packages_found >= 1

\* the script ran to its end on a repository it had to create
C22_SelfTestRan ==
  /\ last.op = "test_vcc"
  /\ ~last.io
  /\ last.report.packaged
  /\ ~last.pre.root
  /\ last.ret = "0"

\* C23: create_package_structure copies into Runtime/ no file that lies
\* beneath a directory named images, at any depth, and no file named
\* metadata.json.
C23_RuntimeHoldsNothingUnderImages ==
  Returned("package_item", "True") =>
    \A p \in world.pkgs[generate_package_id(last.item)].runtime :
      ~UnderImages(p) /\ p[Len(p)] # "metadata.json"

\* C24: after every package_item that returns True, a re-packaging after
\* the asset folder lost files included, the files under Runtime/ are the
\* eligible files that are in the asset folder now, and no file of an
\* earlier packaging is left.  (Stated for the files in sub-directories
\* that are not beneath a directory named images.)
C24_RuntimeMirrorsAssetFolder ==
  Returned("package_item", "True") =>
    {p \in world.pkgs[generate_package_id(last.item)].runtime : ~UnderImages(p)}
      = {p \in AssetFiles(world, last.item.folder) :
           Len(p) >= 2 /\ ~UnderImages(p) /\ p[Len(p)] # "metadata.json"}

\* C25: validate_repository returns valid = true exactly when it raised no
\* issue or every issue it raised had its repair applied; the lengths of
\* "fixes" and "issues" are never equal in a run in which a repair failed
\* or the index could not be read.
C25_ValidExactlyWhenAllFixed ==
  last.op = "validate_repository" =>
    /\ (last.ret = "True") <=> ~last.report.unfixed
    /\ last.report.unfixed => last.report.fixes # last.report.issues
    /\ last.ret = "True" =>
         (world.root /\ world.packages /\ WellFormedIndex(world.index))

\* a run in which one repair was applied and another one failed
C25_SomeFixedSomeNot ==
  /\ last.op = "validate_repository"
  /\ last.report.unfixed
  /\ last.report.fixes >= 1
  /\ last.ret = "False"

\* C26: whenever unpackage_item returns False, for a precondition that does
\* not hold, a failing removal of the directory or a failing index rebuild,
\* the package columns of the row are what they were before the call.
\* (Stated for the rows of the database.)
C26_FailedUnpackagingLeavesDatabase ==
  (Returned("unpackage_item", "False") /\ IsRow(last.pre, last.item))
    => world.db = last.pre.db

\* the identifiers of the rows marked packaged
MarkedIds(w) == {w.db[i].package_id : i \in {j \in ItemIds : w.db[j].is_packaged}}

\* the identifiers P for which Packages/P/package.json exists
ManifestIds(w) == {d \in DOMAIN w.pkgs : w.pkgs[d].manifest.kind # "missing"}

\* C27: in every state reached by package_item, unpackage_item and
\* package_all_items on rows of the database without a failing I/O step
\* and without a change from outside, the database, Packages/ and
\* index.json agree: a row is marked packaged with the identifier P exactly
\* when Packages/P/package.json exists and exactly when index.json lists P,
\* with the one version "1.0.0" that the row records.
C27_ThreeViewsAgree ==
  ext = 0 =>
    /\ MarkedIds(world) = ManifestIds(world)
    /\ MarkedIds(world) = IndexedNames(world.index)
    /\ \A k \in IndexedPairs(world.index) : k[2] = Version100
    /\ \A i \in ItemIds :
         world.db[i].is_packaged =>
           /\ world.db[i].package_version = Version100
           /\ world.db[i].package_id = generate_package_id(get_item(world.db, i))

\* one package removed while another one stays
C27_UnpackagedOneOfTwo ==
  /\ ext = 0
  /\ Returned("unpackage_item", "True")
  /\ MarkedIds(world) # {}
  /\ MarkedIds(last.pre) # MarkedIds(world)

\* index.json has the configured repository name, id and author
HasConfiguredNames(ix) ==
  /\ WellFormedIndex(ix)
  /\ ix.name = ConfiguredRepoName
  /\ ix.id = ConfiguredRepoId
  /\ ix.author = ConfiguredRepoAuthor

\* C28: once index.json was generated with the configured repository name,
\* id and author, the three fields keep these values after a later
\* package_item, unpackage_item or package_all_items.
C28_ConfiguredNamesKept ==
  (/\ last.op \in {"package_item", "unpackage_item", "package_all_items"}
   /\ ~last.io
   /\ HasConfiguredNames(last.pre.index))
  => HasConfiguredNames(world.index)

\* C29: when package_item runs in a worker thread while an index
\* regeneration runs on the same repository, then once both have ended
\* index.json lists the item that the database marks as packaged.
C29_ConcurrentRegenerateListsPackage ==
  (/\ last.op = "gui_package"
   /\ wr.pc = "idle"
   /\ world.db[last.item.item_id].is_packaged)
  => generate_package_id(last.item) \in IndexedNames(world.index)

\* the directory Packages/<pid> of the world, missing or not
DirAt(w, pid) == IF pid \in DOMAIN w.pkgs THEN w.pkgs[pid] ELSE NoDir

\* titles and creators another item can have: the titles of the rows, the
\* empty text and texts that end like an item_id
OtherTitles ==
  {Rows[i].title : i \in ItemIds}
    \cup {<<>>, <<"C","o","o","l"," ","P","r","o","p",".","7">>,
          <<"C","o","o","l"," ","P","r","o","p","7">>, <<"7">>}

\* C30: an item with another item_id has another package identifier,
\* whatever its creator and title, and package_item or unpackage_item on an item leaves
\* the package directory of every other row as it was.
C30_OtherItemsDirectoriesKept ==
  (last.op \in {"package_item", "unpackage_item"} /\ Has(last.item, "item_id"))
  => LET own == generate_package_id(last.item)
     IN /\ \A j \in ItemIds \ {last.item.item_id} :
             \A t \in OtherTitles \cup {last.item.title} :
               /\ generate_package_id([last.item EXCEPT !.item_id = j, !.title = t])
                    # own
               /\ \A c \in OtherTitles \cup {None} :
                    generate_package_id(
                      [last.item EXCEPT !.item_id = j, !.title = t, !.creator = c,
                                        !.keys = @ \cup {"creator"}]) # own
        /\ \A j \in ItemIds \ {last.item.item_id} :
             LET other == generate_package_id(get_item(last.pre.db, j))
             IN /\ other # own
                /\ DirAt(world, other) = DirAt(last.pre, other)

\* package_item or unpackage_item succeeded on a row while the package
\* directory of another row existed
C30_ActedNextToAnotherPackage ==
  /\ last.op \in {"package_item", "unpackage_item"}
  /\ last.ret = "True"
  /\ Has(last.item, "item_id")
  /\ \E j \in ItemIds \ {last.item.item_id} :
       DirAt(last.pre, generate_package_id(get_item(last.pre.db, j))) # NoDir

====
